---- MODULE Spec2Model ----
(***************************************************************************)
(* Message model and codecs of libs/collab-stream/src/model.rs.            *)
(*                                                                         *)
(* The crate is a library of pure functions over byte buffers and redis    *)
(* reply values.  Each specification below is a small harness around one   *)
(* family of functions: a producer/transport step puts a value in arg,   *)
(* and one step applies the function under study and stores what it        *)
(* returned in out.                                                      *)
(*                                                                         *)
(* Strings are modelled as their UTF-8 bytes, bytes as 0..255.  Integers   *)
(* wider than the checker's (u64, i64, protobuf varints) are kept as digit *)
(* sequences so that their range checks are exact.                         *)
(***************************************************************************)
EXTENDS Integers, Sequences, FiniteSets, TLC

VARIABLES
  pc,      \* position of the harness: "start", "ready", "done"
  schema,  \* field number of the update_v1 oneof member in the proto schema
  orig,    \* the typed value the producer started from (when there is one)
  src,     \* how arg was produced
  arg,     \* the input handed to the function under study
  out      \* what the function returned

vars == <<pc, schema, orig, src, arg, out>>

(***************************************************************************)
(* Bounds of the model.                                                    *)
(***************************************************************************)
MaxFieldTag == 2   \* proto field numbers tried for update_v1: 1..MaxFieldTag
MaxPayload == 2    \* longest encode_update payload a producer sends
MaxRaw == 3        \* longest arbitrary buffer put on the event channel
MaxPieces == 5     \* most pieces a received sender string is made of
MaxPairs == 2      \* most (key, entries) pairs in a grouped reply
MaxEntries == 2    \* most entries under one key of a grouped reply

(***************************************************************************)
(* Generic helpers.                                                        *)
(***************************************************************************)
None == <<>>

SeqsUpTo(S, n) == UNION {[1..k -> S] : k \in 0..n}

Take(s, n) == SubSeq(s, 1, n)

Drop(s, n) == SubSeq(s, n + 1, Len(s))

StartsWith(s, p) == Len(s) >= Len(p) /\ Take(s, Len(p)) = p

Min(S) == CHOOSE m \in S : \A o \in S : m <= o

\* Result<T, E>
Ok(v) == [ok |-> TRUE, val |-> v, err |-> None]

Err(e) == [ok |-> FALSE, val |-> None, err |-> e]

(***************************************************************************)
(* crate::error::StreamError, by variant.  info carries the variant's    *)
(* payload (a message, or the wrapped error).                              *)
(***************************************************************************)
StreamError(variant, info) == [variant |-> variant, info |-> info]

(***************************************************************************)
(* Protocol Buffers wire format, as prost reads and writes it.             *)
(*                                                                         *)
(* A varint is kept as its little-endian 7-bit groups, so that keys and    *)
(* lengths of up to 64 bits are handled without wide arithmetic.           *)
(***************************************************************************)
\* Offsets i (0-based from pos) of the first byte without the continuation bit,
\* among the at most 10 bytes a varint may take.
VarintEnds(buf, pos) ==
  {i \in 0..9 : pos + i <= Len(buf) /\ buf[pos + i] < 128}

\* prost::encoding::decode_varint: [ok, groups, next]
decode_varint(buf, pos) ==
  IF VarintEnds(buf, pos) = {} THEN [ok |-> FALSE, groups |-> <<>>, next |-> pos]
  ELSE LET i == Min(VarintEnds(buf, pos)) IN
       \* the 10th byte may only carry bit 63
       IF i = 9 /\ buf[pos + 9] >= 2
       THEN [ok |-> FALSE, groups |-> <<>>, next |-> pos]
       ELSE [ok |-> TRUE,
             groups |-> [k \in 1..(i + 1) |-> buf[pos + k - 1] % 128],
             next |-> pos + i + 1]

\* Number of significant 7-bit groups (0 for the value zero).
SigLen(g) == IF \A k \in 1..Len(g) : g[k] = 0 THEN 0
             ELSE CHOOSE k \in 1..Len(g) : g[k] # 0 /\ \A j \in (k + 1)..Len(g) : g[j] = 0

\* key > u32::MAX
KeyTooBig(g) == SigLen(g) >= 6 \/ (SigLen(g) = 5 /\ g[5] >= 16)

\* key & 0x07
KeyWireType(g) == g[1] % 8

\* key >> 3, as the groups of the key with the low three bits cleared
KeyTag(g) == [k \in 1..SigLen(g) |-> IF k = 1 THEN g[1] - (g[1] % 8) ELSE g[k]]

KeyTagIsZero(g) == SigLen(KeyTag(g)) = 0

KeyTagIs(g, n) == SigLen(g) <= 1 /\ g[1] \div 8 = n

\* A length varint against the bytes that remain (always fewer than 2^28).
LenExceeds(g, remaining) ==
  \/ SigLen(g) > 4
  \/ g[1] + (IF Len(g) >= 2 THEN g[2] * 128 ELSE 0)
          + (IF Len(g) >= 3 THEN g[3] * 16384 ELSE 0)
          + (IF Len(g) >= 4 THEN g[4] * 2097152 ELSE 0) > remaining

SmallLen(g) ==
  g[1] + (IF Len(g) >= 2 THEN g[2] * 128 ELSE 0)
       + (IF Len(g) >= 3 THEN g[3] * 16384 ELSE 0)
       + (IF Len(g) >= 4 THEN g[4] * 2097152 ELSE 0)

\* prost::encoding::decode_key: [ok, wt, g, next]
decode_key(buf, pos) ==
  LET v == decode_varint(buf, pos) IN
  IF ~v.ok \/ KeyTooBig(v.groups) \/ KeyWireType(v.groups) > 5 \/ KeyTagIsZero(v.groups)
  THEN [ok |-> FALSE, wt |-> 0, g |-> <<>>, next |-> pos]
  ELSE [ok |-> TRUE, wt |-> KeyWireType(v.groups), g |-> v.groups, next |-> v.next]

\* A length-delimited body at pos: [ok, from, to] (the body is buf[from..to]).
read_delimited(buf, pos) ==
  LET l == decode_varint(buf, pos) IN
  IF ~l.ok \/ LenExceeds(l.groups, Len(buf) - l.next + 1)
  THEN [ok |-> FALSE, from |-> pos, to |-> pos]
  ELSE [ok |-> TRUE, from |-> l.next, to |-> l.next + SmallLen(l.groups) - 1]

\* prost::encoding::skip_field for the field whose key is (wt, g), its value at
\* pos: [ok, next].  Group nesting is limited by prost's recursion limit (100),
\* which no buffer of the model reaches.
RECURSIVE skip_field(_, _, _, _)
RECURSIVE skip_group(_, _, _)
skip_group(g, buf, pos) ==
  LET k == decode_key(buf, pos) IN
  IF ~k.ok THEN [ok |-> FALSE, next |-> pos]
  ELSE IF k.wt = 4
       THEN IF KeyTag(k.g) # KeyTag(g) THEN [ok |-> FALSE, next |-> pos]
            ELSE [ok |-> TRUE, next |-> k.next]
       ELSE LET s == skip_field(k.wt, k.g, buf, k.next) IN
            IF ~s.ok THEN s ELSE skip_group(g, buf, s.next)

skip_field(wt, g, buf, pos) ==
  CASE wt = 0 -> LET v == decode_varint(buf, pos) IN [ok |-> v.ok, next |-> v.next]
    [] wt = 1 -> [ok |-> pos + 8 <= Len(buf) + 1, next |-> pos + 8]
    [] wt = 5 -> [ok |-> pos + 4 <= Len(buf) + 1, next |-> pos + 4]
    [] wt = 2 -> LET d == read_delimited(buf, pos) IN [ok |-> d.ok, next |-> d.to + 1]
    [] wt = 3 -> skip_group(g, buf, pos)
    [] OTHER -> [ok |-> FALSE, next |-> pos]    \* an end-group key on its own

\* Option<Update>: the oneof of proto::collab::CollabUpdateEvent
NoUpdate == [set |-> FALSE, bytes |-> <<>>]

UpdateV1(b) == [set |-> TRUE, bytes |-> b]

\* <proto::collab::CollabUpdateEvent as prost::Message>::decode: the merge loop
\* over the buffer.  [ok, update]
RECURSIVE proto_merge(_, _, _, _)
proto_merge(tag, buf, pos, update) ==
  IF pos > Len(buf) THEN [ok |-> TRUE, update |-> update]
  ELSE LET k == decode_key(buf, pos) IN
       IF ~k.ok THEN [ok |-> FALSE, update |-> NoUpdate]
       ELSE IF KeyTagIs(k.g, tag)
            THEN \* the oneof member: bytes, so the wire type must be length-delimited
                 IF k.wt # 2 THEN [ok |-> FALSE, update |-> NoUpdate]
                 ELSE LET d == read_delimited(buf, k.next) IN
                      IF ~d.ok THEN [ok |-> FALSE, update |-> NoUpdate]
                      ELSE proto_merge(tag, buf, d.to + 1,
                                       UpdateV1(SubSeq(buf, d.from, d.to)))
            ELSE LET s == skip_field(k.wt, k.g, buf, k.next) IN
                 IF ~s.ok THEN [ok |-> FALSE, update |-> NoUpdate]
                 ELSE proto_merge(tag, buf, s.next, update)

proto_decode(tag, buf) == proto_merge(tag, buf, 1, NoUpdate)

\* prost::encoding::encode_varint of a length below 2^14
encode_varint(n) == IF n < 128 THEN <<n>> ELSE <<128 + (n % 128), n \div 128>>

\* prost::Message::encode_to_vec: a oneof member is written whenever it is set,
\* an empty payload included.
proto_encode_to_vec(tag, msg) ==
  IF ~msg.set THEN <<>>
  ELSE <<tag * 8 + 2>> \o encode_varint(Len(msg.bytes)) \o msg.bytes

(***************************************************************************)
(* bincode 1.x, bincode::deserialize::<CollabUpdateEvent>: u32 variant     *)
(* index, u64 length, the bytes; little endian, fixed width, trailing      *)
(* bytes allowed.                                                          *)
(***************************************************************************)
bincode_deserialize(buf) ==
  IF Len(buf) < 4 THEN Err("io: unexpected end of file")
  ELSE IF Take(buf, 4) # <<0, 0, 0, 0>> THEN Err("invalid value: variant index")
  ELSE IF Len(buf) < 12 THEN Err("io: unexpected end of file")
  ELSE IF \/ \E k \in 7..12 : buf[k] # 0
          \/ buf[5] + 256 * buf[6] > Len(buf) - 12
       THEN Err("io: unexpected end of file")
  ELSE Ok(SubSeq(buf, 13, 12 + buf[5] + 256 * buf[6]))

\* What a producer on the legacy format wrote: bincode::serialize of the enum.
bincode_serialize(update) ==
  <<0, 0, 0, 0>> \o <<Len(update) % 256, Len(update) \div 256, 0, 0, 0, 0, 0, 0>> \o update

(***************************************************************************)
(* CollabUpdateEvent                                                       *)
(***************************************************************************)
\* to_proto with the empty payload left unset, as a proto3 scalar would be
to_proto_skip_empty(encode_update) ==
  IF encode_update = <<>> THEN NoUpdate ELSE UpdateV1(encode_update)

to_proto(encode_update) == UpdateV1(encode_update)

from_proto(proto) ==
  IF ~proto.set
  THEN Err(StreamError("UnexpectedValue", "update not set for CollabUpdateEvent proto"))
  ELSE Ok(proto.bytes)

encode(tag, encode_update) == proto_encode_to_vec(tag, to_proto(encode_update))

\* decode that also falls back to the legacy format when the proto message
\* carries no update
decode_fallback_on_unset(tag, data) ==
  LET p == proto_decode(tag, data) IN
  IF p.ok /\ p.update.set
  THEN [res |-> from_proto(p.update), path |-> <<"proto">>]
  ELSE LET b == bincode_deserialize(data) IN
       [res |-> IF b.ok THEN Ok(b.val) ELSE Err(StreamError("BinCodeSerde", b.err)),
        path |-> <<"proto", "bincode">>]

\* CollabUpdateEvent::decode.  path records the decoders that were run, in order.
decode(tag, data) ==
  LET p == proto_decode(tag, data) IN
  IF p.ok
  THEN [res |-> from_proto(p.update), path |-> <<"proto">>]
  ELSE LET b == bincode_deserialize(data) IN
       [res |-> IF b.ok THEN Ok(b.val) ELSE Err(StreamError("BinCodeSerde", b.err)),
        path |-> <<"proto", "bincode">>]

(***************************************************************************)
(* The event channel: a producer encodes an event (current or legacy       *)
(* format), or arbitrary bytes arrive; the frame may lose its tail or      *)
(* gain a byte; the consumer decodes it.                                   *)
(***************************************************************************)
PayloadBytes == {0, 1, 10, 128}

Events == SeqsUpTo(PayloadBytes, MaxPayload)

\* Bytes of arbitrary buffers: small lengths 0, 1, 2; the keys of field 1 as a
\* varint (8) and with the invalid wire type 7 (15); the keys of field 15 as a
\* varint (120), start-group (123) and end-group (124); a continuation byte
\* (128); the length-delimited keys of the fields the schema may use.
RawBytes == {0, 1, 2, 8, 15, 120, 123, 124, 128} \cup {t * 8 + 2 : t \in 1..MaxFieldTag}

RawBuffers == SeqsUpTo(RawBytes, MaxRaw)

InitEvent ==
  /\ pc = "start"
  /\ schema \in 1..MaxFieldTag
  /\ orig = None
  /\ src = "none"
  /\ arg = None
  /\ out = None

Encode ==
  /\ pc = "start"
  /\ \E e \in Events :
       /\ orig' = e
       /\ arg' = encode(schema, e)
  /\ src' = "encode"
  /\ pc' = "ready"
  /\ UNCHANGED <<schema, out>>

LegacyEncode ==
  /\ pc = "start"
  /\ \E e \in Events :
       /\ orig' = e
       /\ arg' = bincode_serialize(e)
  /\ src' = "legacy"
  /\ pc' = "ready"
  /\ UNCHANGED <<schema, out>>

RawFrame ==
  /\ pc = "start"
  /\ \E b \in RawBuffers : arg' = b
  /\ src' = "raw"
  /\ pc' = "ready"
  /\ UNCHANGED <<schema, orig, out>>

Truncate ==
  /\ pc = "ready"
  /\ src \in {"encode", "legacy"}
  /\ \E n \in 0..(Len(arg) - 1) : arg' = Take(arg, n)
  /\ src' = "damaged"
  /\ UNCHANGED <<pc, schema, orig, out>>

Trailing ==
  /\ pc = "ready"
  /\ src \in {"encode", "legacy"}
  /\ \E b \in RawBytes : arg' = Append(arg, b)
  /\ src' = "damaged"
  /\ UNCHANGED <<pc, schema, orig, out>>

Decode ==
  /\ pc = "ready"
  /\ out' = decode(schema, arg)
  /\ pc' = "done"
  /\ UNCHANGED <<schema, orig, src, arg>>

NextEvent == Encode \/ LegacyEncode \/ RawFrame \/ Truncate \/ Trailing \/ Decode

SpecEvent == InitEvent /\ [][NextEvent]_vars

(***************************************************************************)
(* C1: decode(encode(v)) succeeds with a value equal to v, for every       *)
(* UpdateV1 payload (the empty one included), and only the protobuf        *)
(* decoder is run: the legacy fallback is not reached.                     *)
(***************************************************************************)
C1_RoundTrip ==
  (pc = "done" /\ src = "encode") =>
    /\ out.res.ok
    /\ out.res.val = orig
    /\ out.path = <<"proto">>

\* the empty payload has been encoded (as a key and a zero length) and decoded
C1_Witness ==
  /\ pc = "done"
  /\ src = "encode"
  /\ orig = <<>>
  /\ arg = <<schema * 8 + 2, 0>>
  /\ out.res.ok

(***************************************************************************)
(* C2 as stated: decode tries the protobuf format first; whenever that     *)
(* attempt yields no event the legacy decoder is run on the same buffer;   *)
(* a legacy frame decodes to its event; and every failure of decode is the *)
(* legacy decoder's error, BinCodeSerde.                                   *)
(***************************************************************************)
C2_AsStated ==
  pc = "done" =>
    /\ out.path[1] = "proto"
    /\ (~(proto_decode(schema, arg).ok /\ proto_decode(schema, arg).update.set)
          => out.path = <<"proto", "bincode">>)
    /\ (src = "legacy" => out.res.ok /\ out.res.val = orig)
    /\ (~out.res.ok => out.res.err.variant = "BinCodeSerde")

(***************************************************************************)
(* C2 amended: decode tries the protobuf format first.  The legacy decoder *)
(* is run, on the same buffer, exactly when the buffer does not parse as a *)
(* protobuf message; then a buffer valid under the legacy format decodes   *)
(* to its event (every frame a legacy producer wrote does), and if the     *)
(* legacy decoder fails too the error is BinCodeSerde.  A buffer that      *)
(* parses as a protobuf message without the update field (the empty        *)
(* buffer, a message of unknown fields only) fails with UnexpectedValue    *)
(* and the legacy decoder is not run.                                      *)
(***************************************************************************)
C2_Fallback ==
  pc = "done" =>
    LET p == proto_decode(schema, arg)
        b == bincode_deserialize(arg)
    IN /\ out.path[1] = "proto"
       /\ (out.path = <<"proto", "bincode">>) <=> ~p.ok
       /\ (~p.ok /\ b.ok) => (out.res.ok /\ out.res.val = b.val)
       /\ (~p.ok /\ ~b.ok) => (~out.res.ok /\ out.res.err.variant = "BinCodeSerde")
       /\ (p.ok /\ ~p.update.set) =>
            (~out.res.ok /\ out.res.err.variant = "UnexpectedValue")
       /\ (p.ok /\ p.update.set) => (out.res.ok /\ out.res.val = p.update.bytes)
       /\ (src = "legacy" => ~p.ok /\ out.res.ok /\ out.res.val = orig)
       /\ (arg = <<>> => ~out.res.ok /\ out.res.err.variant = "UnexpectedValue")

\* a legacy frame with a payload has been decoded through the fallback
C2_Witness ==
  /\ pc = "done"
  /\ src = "legacy"
  /\ Len(orig) = MaxPayload
  /\ out.path = <<"proto", "bincode">>
  /\ out.res.ok

(***************************************************************************)
(* Text helpers of the Rust standard library, over UTF-8 bytes.            *)
(***************************************************************************)
\* str::split(sep): the tokens between separators; never empty
RECURSIVE Split(_, _)
Split(s, sep) ==
  IF \A i \in 1..Len(s) : s[i] # sep THEN <<s>>
  ELSE LET i == Min({j \in 1..Len(s) : s[j] = sep}) IN
       <<Take(s, i - 1)>> \o Split(Drop(s, i), sep)

\* str::trim_start_matches(prefix): the prefix is removed as often as it repeats
RECURSIVE trim_start_matches(_, _)
trim_start_matches(s, prefix) ==
  IF StartsWith(s, prefix) THEN trim_start_matches(Drop(s, Len(prefix)), prefix) ELSE s

IsDigit(c) == c >= 48 /\ c <= 57

RECURSIVE StripZeros(_)
StripZeros(d) == IF Len(d) > 1 /\ d[1] = 0 THEN StripZeros(Tail(d)) ELSE d

\* a < b for decimal digit sequences without leading zeros
DigitsLess(a, b) ==
  \/ Len(a) < Len(b)
  \/ /\ Len(a) = Len(b)
     /\ \E i \in 1..Len(a) : a[i] < b[i] /\ \A j \in 1..(i - 1) : a[j] = b[j]

\* An integer as sign and decimal magnitude; zero is [neg |-> FALSE, mag |-> <<0>>].
IntVal(neg, mag) == [neg |-> neg /\ mag # <<0>>, mag |-> mag]

I64Max == <<9, 2, 2, 3, 3, 7, 2, 0, 3, 6, 8, 5, 4, 7, 7, 5, 8, 0, 7>>

I64MinMag == <<9, 2, 2, 3, 3, 7, 2, 0, 3, 6, 8, 5, 4, 7, 7, 5, 8, 0, 8>>

U64Max == <<1, 8, 4, 4, 6, 7, 4, 4, 0, 7, 3, 7, 0, 9, 5, 5, 1, 6, 1, 5>>

U16Max == <<6, 5, 5, 3, 5>>

U8Max == <<2, 5, 5>>

\* <integer as FromStr>::from_str (core::num): an optional sign ('-' only for a
\* signed type), then at least one decimal digit; the value must fit the type.
from_str_int(s, signed, maxPos, maxNegMag) ==
  IF s = <<>> THEN Err("Empty")
  ELSE IF Len(s) = 1 /\ s[1] \in {43, 45} THEN Err("InvalidDigit")
  ELSE LET neg == signed /\ s[1] = 45
           digits == IF s[1] = 43 \/ neg THEN Tail(s) ELSE s
       IN IF \E i \in 1..Len(digits) : ~IsDigit(digits[i]) THEN Err("InvalidDigit")
          ELSE LET mag == StripZeros([i \in 1..Len(digits) |-> digits[i] - 48]) IN
               IF neg /\ DigitsLess(maxNegMag, mag) THEN Err("NegOverflow")
               ELSE IF ~neg /\ DigitsLess(maxPos, mag) THEN Err("PosOverflow")
               ELSE Ok(IntVal(neg, mag))

parse_i64(s) == from_str_int(s, TRUE, I64Max, I64MinMag)

parse_u64(s) == from_str_int(s, FALSE, U64Max, <<0>>)

parse_u16(s) == from_str_int(s, FALSE, U16Max, <<0>>)

parse_u8(s) == from_str_int(s, FALSE, U8Max, <<0>>)

\* Display of an integer: '-' for a negative one, then the decimal digits
fmt_int(v) ==
  (IF v.neg THEN <<45>> ELSE <<>>) \o [i \in 1..Len(v.mag) |-> v.mag[i] + 48]

\* core::str::from_utf8: whether the bytes are well-formed UTF-8
RECURSIVE ValidUtf8(_)
ValidUtf8(b) ==
  IF b = <<>> THEN TRUE
  ELSE LET c == b[1]
           Cont(i) == Len(b) >= i /\ b[i] >= 128 /\ b[i] <= 191
       IN CASE c < 128 -> ValidUtf8(Tail(b))
            [] c >= 194 /\ c <= 223 -> Cont(2) /\ ValidUtf8(Drop(b, 2))
            [] c >= 224 /\ c <= 239 ->
                 /\ Cont(2) /\ Cont(3)
                 /\ (c = 224 => b[2] >= 160)
                 /\ (c = 237 => b[2] <= 159)
                 /\ ValidUtf8(Drop(b, 3))
            [] c >= 240 /\ c <= 244 ->
                 /\ Cont(2) /\ Cont(3) /\ Cont(4)
                 /\ (c = 240 => b[2] >= 144)
                 /\ (c = 244 => b[2] <= 143)
                 /\ ValidUtf8(Drop(b, 4))
            [] OTHER -> FALSE

(***************************************************************************)
(* redis::RedisError as (kind, description, detail); param is what a     *)
(* formatted detail was built from.                                        *)
(***************************************************************************)
RedisError(kind, desc, detail, param) ==
  [kind |-> kind, desc |-> desc, detail |-> detail, param |-> param]

\* crate::error::internal: a type error carrying the message
internal(msg, param) == RedisError("TypeError", "", msg, param)

(***************************************************************************)
(* Sender identity: collab::core::origin::CollabOrigin                     *)
(***************************************************************************)
S_uid == <<117, 105, 100, 58>>                                   \* "uid:"

S_device_id == <<100, 101, 118, 105, 99, 101, 95, 105, 100, 58>>  \* "device_id:"

S_server == <<115, 101, 114, 118, 101, 114>>                     \* "server"

S_pipe == <<124>>                                                \* "|"

Origin_Empty == [kind |-> "Empty", uid |-> IntVal(FALSE, <<0>>), device_id |-> <<>>]

Origin_Server == [kind |-> "Server", uid |-> IntVal(FALSE, <<0>>), device_id |-> <<>>]

Origin_Client(uid, device_id) == [kind |-> "Client", uid |-> uid, device_id |-> device_id]

\* The canonical string form: Display for CollabOrigin
origin_to_string(x) ==
  CASE x.kind = "Empty" -> <<>>
    [] x.kind = "Server" -> S_server
    [] OTHER -> S_uid \o fmt_int(x.uid) \o S_pipe \o S_device_id \o x.device_id

\* the arm taken once the uid and device_id tokens are told apart
origin_client(uid_token, device_id_token) ==
  LET uid == parse_i64(trim_start_matches(uid_token, S_uid))
      device_id == trim_start_matches(device_id_token, S_device_id)
  IN IF ~uid.ok THEN Err(internal("failed to parse uid: {}", <<>>))
     ELSE Ok(Origin_Client(uid.val, device_id))

collab_origin_from_str(value) ==
  IF value = <<>> THEN Ok(Origin_Empty)
  ELSE IF value = S_server THEN Ok(Origin_Server)
  ELSE LET split == Split(value, 124)
           fail == Err(internal("could not parse collab origin from {}", value))
       IN \* only the first two tokens are taken from the iterator
          IF Len(split) < 2 THEN fail
          ELSE IF StartsWith(split[1], S_uid) /\ StartsWith(split[2], S_device_id)
               THEN origin_client(split[1], split[2])
          ELSE IF StartsWith(split[2], S_uid) /\ StartsWith(split[1], S_device_id)
               THEN origin_client(split[2], split[1])
          ELSE fail

(***************************************************************************)
(* The sender field: a string arrives from the stream, or a producer       *)
(* writes the canonical form of an identity; the consumer parses it.       *)
(***************************************************************************)
RECURSIVE Concat(_)
Concat(ss) == IF ss = <<>> THEN <<>> ELSE Head(ss) \o Concat(Tail(ss))

\* "uid:", "device_id:", "|", "7", "-", "x"
Pieces == {S_uid, S_device_id, S_pipe, <<55>>, <<45>>, <<120>>}

I64MaxStr == [i \in 1..Len(I64Max) |-> I64Max[i] + 48]

I64MinMagStr == [i \in 1..Len(I64MinMag) |-> I64MinMag[i] + 48]

\* strings at the edges of the i64 range, and one with an explicit plus sign
EdgeStrings ==
  {S_server} \cup
  {S_uid \o n \o S_pipe \o S_device_id \o <<120>> :
     n \in {I64MaxStr, I64MinMagStr, <<45>> \o I64MinMagStr,
            <<45>> \o I64MinMagStr \o <<48>>, <<43, 55>>, <<48, 48, 55>>}}

OriginStrings == {Concat(ps) : ps \in SeqsUpTo(Pieces, MaxPieces)} \cup EdgeStrings

Uids == {IntVal(FALSE, <<0>>), IntVal(FALSE, <<7>>), IntVal(TRUE, <<7>>),
         IntVal(FALSE, I64Max), IntVal(TRUE, I64MinMag)}

\* "", "x", "x|x", "device_id:x", "uid:7"
DeviceIds == {<<>>, <<120>>, <<120, 124, 120>>, S_device_id \o <<120>>, S_uid \o <<55>>}

Origins == {Origin_Empty, Origin_Server}
             \cup {Origin_Client(u, d) : u \in Uids, d \in DeviceIds}

InitOrigin ==
  /\ pc = "start"
  /\ schema = 0
  /\ orig = None
  /\ src = "none"
  /\ arg = None
  /\ out = None

ReceiveSender ==
  /\ pc = "start"
  /\ \E s \in OriginStrings : arg' = s
  /\ src' = "wire"
  /\ pc' = "ready"
  /\ UNCHANGED <<schema, orig, out>>

WriteSender ==
  /\ pc = "start"
  /\ \E x \in Origins :
       /\ orig' = x
       /\ arg' = origin_to_string(x)
  /\ src' = "canonical"
  /\ pc' = "ready"
  /\ UNCHANGED <<schema, out>>

ParseSender ==
  /\ pc = "ready"
  /\ out' = collab_origin_from_str(arg)
  /\ pc' = "done"
  /\ UNCHANGED <<schema, orig, src, arg>>

NextOrigin == ReceiveSender \/ WriteSender \/ ParseSender

SpecOrigin == InitOrigin /\ [][NextOrigin]_vars

\* The shape the sender string must have: exactly two tokens, the uid token
\* first (TRUE) or second (FALSE).
ClientShape(s, uidFirst) ==
  LET t == Split(s, 124)
      u == IF uidFirst THEN 1 ELSE 2
      d == IF uidFirst THEN 2 ELSE 1
  IN /\ Len(t) = 2
     /\ StartsWith(t[u], S_uid)
     /\ parse_i64(Drop(t[u], Len(S_uid))).ok
     /\ StartsWith(t[d], S_device_id)

ClientOfShape(s, uidFirst) ==
  LET t == Split(s, 124)
      u == IF uidFirst THEN 1 ELSE 2
      d == IF uidFirst THEN 2 ELSE 1
  IN Origin_Client(parse_i64(Drop(t[u], Len(S_uid))).val, Drop(t[d], Len(S_device_id)))

(***************************************************************************)
(* C3: a string that is neither empty nor "server" parses to a Client if   *)
(* and only if it is exactly two '|'-separated tokens, one "uid:" followed *)
(* by a signed 64-bit integer and the other "device_id:" followed by the   *)
(* device id, in either order; the Client carries that integer and that    *)
(* device id; every other string is a parse error.                         *)
(***************************************************************************)
C3_ExactlyTwoTokens ==
  (pc = "done" /\ arg # <<>> /\ arg # S_server) =>
    /\ out.ok <=> (ClientShape(arg, TRUE) \/ ClientShape(arg, FALSE))
    /\ \A uidFirst \in BOOLEAN :
         ClientShape(arg, uidFirst) => (out.ok /\ out.val = ClientOfShape(arg, uidFirst))

(***************************************************************************)
(* C4: parsing the canonical string form of a sender identity ("",         *)
(* "server", "uid:<uid>|device_id:<device_id>") gives the identity back.   *)
(***************************************************************************)
C4_CanonicalRoundTrip ==
  (pc = "done" /\ src = "canonical") => (out.ok /\ out.val = orig)

(***************************************************************************)
(* redis::Value and the conversions of the redis crate that the model      *)
(* layer calls.                                                            *)
(***************************************************************************)
V_Nil == [t |-> "Nil", n |-> 0, b |-> <<>>, items |-> <<>>]

V_Okay == [t |-> "Okay", n |-> 0, b |-> <<>>, items |-> <<>>]

V_Int(n) == [t |-> "Int", n |-> n, b |-> <<>>, items |-> <<>>]

V_Data(b) == [t |-> "Data", n |-> 0, b |-> b, items |-> <<>>]

V_Status(b) == [t |-> "Status", n |-> 0, b |-> b, items |-> <<>>]

V_Bulk(items) == [t |-> "Bulk", n |-> 0, b |-> <<>>, items |-> items]

\* redis's invalid_type_error!: a type error naming what was found
invalid_type_error(v, msg) ==
  RedisError("TypeError", "Response was of incompatible type", msg, <<>>)

\* <String as FromRedisValue>::from_redis_value
String_from_redis_value(v) ==
  CASE v.t = "Data" ->
         IF ValidUtf8(v.b) THEN Ok(v.b)
         ELSE Err(RedisError("TypeError", "Invalid UTF-8", "", <<>>))
    [] v.t = "Okay" -> Ok(<<79, 75>>)
    [] v.t = "Status" -> Ok(v.b)
    [] OTHER -> Err(invalid_type_error(v, "Response type not string compatible."))

\* <u8 as FromRedisValue>::from_redis_value: an integer reply is cast, a textual
\* one is parsed
u8_from_redis_value(v) ==
  CASE v.t = "Int" -> Ok(v.n % 256)
    [] v.t = "Status" \/ (v.t = "Data" /\ ValidUtf8(v.b)) ->
         LET p == parse_u8(v.b) IN
         IF p.ok
         THEN Ok((IF Len(p.val.mag) >= 3 THEN p.val.mag[Len(p.val.mag) - 2] * 100 ELSE 0)
                 + (IF Len(p.val.mag) >= 2 THEN p.val.mag[Len(p.val.mag) - 1] * 10 ELSE 0)
                 + p.val.mag[Len(p.val.mag)])
         ELSE Err(invalid_type_error(v, "Could not convert from string."))
    [] v.t = "Data" -> Err(RedisError("TypeError", "Invalid UTF-8", "", <<>>))
    [] OTHER -> Err(invalid_type_error(v, "Response type not convertible to numeric."))

\* <Vec<u8> as FromRedisValue>::from_redis_value
Vec_u8_from_redis_value(v) ==
  CASE v.t = "Data" -> Ok(v.b)
    [] v.t = "Nil" -> Ok(<<>>)
    [] v.t = "Bulk" ->
         IF \A i \in 1..Len(v.items) : u8_from_redis_value(v.items[i]).ok
         THEN Ok([i \in 1..Len(v.items) |-> u8_from_redis_value(v.items[i]).val])
         ELSE LET i == Min({j \in 1..Len(v.items) : ~u8_from_redis_value(v.items[j]).ok})
              IN Err(u8_from_redis_value(v.items[i]).err)
    [] OTHER -> Err(invalid_type_error(v, "Response type not vector compatible."))

\* <bytes::Bytes as FromRedisValue>::from_redis_value
Bytes_from_redis_value(v) ==
  IF v.t = "Data" THEN Ok(v.b) ELSE Err(invalid_type_error(v, "Not binary data"))

(***************************************************************************)
(* MessageId                                                               *)
(***************************************************************************)
\* str::splitn(2, '-')
splitn2(s, sep) ==
  IF \A i \in 1..Len(s) : s[i] # sep THEN <<s>>
  ELSE LET i == Min({j \in 1..Len(s) : s[j] = sep}) IN <<Take(s, i - 1), Drop(s, i)>>

\* TryFrom<&str> for MessageId
MessageId_try_from_str(s) ==
  LET parts == splitn2(s, 45) IN
  IF Len(parts) # 2 THEN Err(StreamError("InvalidFormat", ""))
  ELSE LET timestamp_ms == parse_u64(parts[1])
           sequence_number == parse_u16(parts[2])
       IN IF ~timestamp_ms.ok THEN Err(StreamError("ParseIntError", timestamp_ms.err))
          ELSE IF ~sequence_number.ok
               THEN Err(StreamError("ParseIntError", sequence_number.err))
          ELSE Ok([timestamp_ms |-> timestamp_ms.val,
                   sequence_number |-> sequence_number.val])

\* TryFrom<&[u8]> for MessageId
MessageId_try_from_bytes(s) ==
  IF ~ValidUtf8(s) THEN Err(StreamError("Utf8Error", ""))
  ELSE MessageId_try_from_str(s)

\* FromRedisValue for MessageId
MessageId_from_redis_value(v) ==
  IF v.t = "Data"
  THEN IF MessageId_try_from_bytes(v.b).ok
       THEN Ok(MessageId_try_from_bytes(v.b).val)
       ELSE Err(RedisError("TypeError", "invalid stream key", "{:?}", v.b))
  ELSE Err(internal("expecting Value::Data", <<>>))

(***************************************************************************)
(* StreamMessage and StreamMessageByStreamKey                              *)
(***************************************************************************)
S_data == <<100, 97, 116, 97>>   \* "data"

bulk_from_redis_value(v) ==
  IF v.t = "Bulk" THEN Ok(v.items) ELSE Err(internal("expecting Value::Bulk", <<>>))

\* verify_field that compares without regard to case
verify_field_any_case(field, expected) ==
  LET field_str == String_from_redis_value(field)
      Lower(str) == [i \in 1..Len(str) |->
                       IF str[i] >= 65 /\ str[i] <= 90 THEN str[i] + 32 ELSE str[i]]
  IN IF ~field_str.ok THEN field_str
     ELSE IF Lower(field_str.val) # expected
          THEN Err(RedisError("TypeError", "Invalid field", "Expected '{}', found '{}'",
                              field_str.val))
     ELSE Ok(<<>>)

verify_field(field, expected) ==
  LET field_str == String_from_redis_value(field) IN
  IF ~field_str.ok THEN field_str
  ELSE IF field_str.val # expected
       THEN Err(RedisError("TypeError", "Invalid field", "Expected '{}', found '{}'",
                           field_str.val))
  ELSE Ok(<<>>)

\* RedisString::from_redis_value
RedisString_from_redis_value(v) ==
  IF v.t = "Data"
  THEN IF ValidUtf8(v.b) THEN Ok(v.b)
       ELSE Err(RedisError("TypeError", "Cannot convert from UTF-8", "", <<>>))
  ELSE Err(internal("expecting Value::Data", <<>>))

\* FromRedisValue for StreamMessage
StreamMessage_from_redis_value(v) ==
  LET bulk == bulk_from_redis_value(v) IN
  IF ~bulk.ok THEN bulk
  ELSE IF Len(bulk.val) # 2
       THEN Err(RedisError("TypeError", "Invalid length",
                           "Expected length of 2 for the outer bulk value, but got:{}",
                           <<Len(bulk.val)>>))
  ELSE LET id == MessageId_from_redis_value(bulk.val[1]) IN
       IF ~id.ok THEN id
       ELSE LET fields == bulk_from_redis_value(bulk.val[2]) IN
            IF ~fields.ok THEN fields
            ELSE IF Len(fields.val) # 2
                 THEN Err(RedisError("TypeError", "Invalid length",
                                     "Expected length of 2 for the bulk value, but got {}",
                                     <<Len(fields.val)>>))
            ELSE LET name == verify_field(fields.val[1], S_data) IN
                 IF ~name.ok THEN name
                 ELSE LET raw_data == Vec_u8_from_redis_value(fields.val[2]) IN
                      IF ~raw_data.ok THEN raw_data
                      ELSE Ok([data |-> raw_data.val, id |-> id.val])

\* redis::streams::StreamId::get::<Bytes>: the field, if present and binary
StreamId_get(sid, key) ==
  IF key \in DOMAIN sid.map /\ Bytes_from_redis_value(sid.map[key]).ok
  THEN [some |-> TRUE, val |-> Bytes_from_redis_value(sid.map[key]).val]
  ELSE [some |-> FALSE, val |-> <<>>]

\* TryFrom<StreamId> for StreamMessage
StreamMessage_try_from(value) ==
  LET id == MessageId_try_from_str(value.id) IN
  IF ~id.ok THEN id
  ELSE LET data == StreamId_get(value, S_data) IN
       IF ~data.some THEN Err(StreamError("UnexpectedValue", "data"))
       ELSE Ok([data |-> data.val, id |-> id.val])

\* map.entry(key).or_default() followed by a push at the front
map_push_front(map, key, value) ==
  IF key \in DOMAIN map
  THEN [map EXCEPT ![key] = <<value>> \o @]
  ELSE [k \in DOMAIN map \cup {key} |-> IF k = key THEN <<value>> ELSE map[k]]

\* map.entry(key).or_default().push(value)
map_push(map, key, value) ==
  IF key \in DOMAIN map
  THEN [map EXCEPT ![key] = Append(@, value)]
  ELSE [k \in DOMAIN map \cup {key} |-> IF k = key THEN <<value>> ELSE map[k]]

\* the inner loop: the entries of one pair, from the i-th on
RECURSIVE push_entries(_, _, _, _)
push_entries(map, stream_key, values, i) ==
  IF i > Len(values) THEN Ok(map)
  ELSE LET value == StreamMessage_from_redis_value(values[i]) IN
       IF ~value.ok THEN value
       ELSE push_entries(map_push(map, stream_key, value.val), stream_key, values, i + 1)

\* the outer loop: the pairs of the reply, from the i-th on
RECURSIVE read_pairs(_, _, _)
read_pairs(map, value_by_id, i) ==
  IF i > Len(value_by_id) THEN Ok(map)
  ELSE LET key_values == bulk_from_redis_value(value_by_id[i]) IN
       IF ~key_values.ok THEN key_values
       ELSE IF Len(key_values.val) # 2
            THEN Err(RedisError("TypeError", "Invalid length",
                                "Expected length of 2 for the outer bulk value", <<>>))
       ELSE LET stream_key == RedisString_from_redis_value(key_values.val[1]) IN
            IF ~stream_key.ok THEN stream_key
            ELSE LET values == bulk_from_redis_value(key_values.val[2]) IN
                 IF ~values.ok THEN values
                 ELSE LET pushed == push_entries(map, stream_key.val, values.val, 1) IN
                      IF ~pushed.ok THEN pushed
                      ELSE read_pairs(pushed.val, value_by_id, i + 1)

\* an empty BTreeMap
EmptyMap == [k \in {} |-> <<>>]

\* from_redis_value that takes every reply that is not a list as "no data"
StreamMessageByStreamKey_lenient(v) ==
  IF v.t # "Bulk" THEN Ok(EmptyMap) ELSE read_pairs(EmptyMap, v.items, 1)

\* FromRedisValue for StreamMessageByStreamKey
StreamMessageByStreamKey_from_redis_value(v) ==
  IF v.t = "Nil" THEN Ok(EmptyMap)
  ELSE LET value_by_id == bulk_from_redis_value(v) IN
       IF ~value_by_id.ok THEN value_by_id
       ELSE read_pairs(EmptyMap, value_by_id.val, 1)

(***************************************************************************)
(* Reading from the stream: the transport returns one raw entry, one       *)
(* StreamId, or a reply grouped by stream key; the consumer decodes it.    *)
(***************************************************************************)
\* "1-0", "2-1", "bad", "12-abc", "1-65536", "1-2-3", "-1", a lone 0xFF
IdTexts == {<<49, 45, 48>>, <<50, 45, 49>>, <<98, 97, 100>>,
            <<49, 50, 45, 97, 98, 99>>, <<49, 45, 54, 53, 53, 51, 54>>,
            <<49, 45, 50, 45, 51>>, <<45, 49>>}

IdValues == {V_Data(t) : t \in IdTexts} \cup {V_Data(<<255>>), V_Nil, V_Int(1)}

\* "data", "wrong", "Data", "DATA", ""
NameTexts == {S_data, <<119, 114, 111, 110, 103>>, <<68, 97, 116, 97>>,
              <<68, 65, 84, 65>>, <<>>}

NameValues == {V_Data(t) : t \in NameTexts}
                \cup {V_Status(S_data), V_Data(<<255>>), V_Int(1), V_Nil}

PayloadValues == {V_Data(<<>>), V_Data(<<7, 0>>), V_Nil, V_Int(7), V_Okay,
                  V_Bulk(<<V_Int(7), V_Int(300)>>), V_Bulk(<<V_Nil>>)}

FieldLists ==
  {V_Bulk(<<n, p>>) : n \in NameValues, p \in PayloadValues}
    \cup {V_Bulk(<<n, V_Data(<<7>>), V_Data(<<7>>)>>) : n \in NameValues}
    \cup {V_Bulk(<<n>>) : n \in NameValues}
    \cup {V_Bulk(<<>>), V_Nil, V_Data(S_data)}

EntryValues ==
  {V_Bulk(<<id, f>>) : id \in IdValues, f \in FieldLists}
    \cup {V_Bulk(<<id, f, V_Data(<<7>>)>>) : id \in IdValues, f \in {V_Bulk(<<V_Data(S_data), V_Data(<<7>>)>>)}}
    \cup {V_Bulk(<<id>>) : id \in IdValues}
    \cup {V_Bulk(<<>>), V_Nil, V_Int(1), V_Data(S_data), V_Okay}

\* redis::streams::StreamId: the entry id and its fields by name
StreamIdMaps ==
  UNION {[names -> {V_Data(<<>>), V_Data(<<7, 0>>), V_Int(7), V_Nil}] :
           names \in SUBSET (NameTexts \ {<<>>})}

StreamIds == [id : IdTexts, map : StreamIdMaps]

\* well-formed entries, told apart by id and payload
GoodEntry(idText, payload) ==
  V_Bulk(<<V_Data(idText), V_Bulk(<<V_Data(S_data), V_Data(payload)>>)>>)

\* the well-formed entries of a grouped reply: "1-0" and "2-1"
GoodEntries == {GoodEntry(<<49, 45, 48>>, <<7>>), GoodEntry(<<50, 45, 49>>, <<>>)}

\* an entry that is not a list, one with a non-binary id, one under a wrong
\* field name
BadEntries ==
  {V_Nil,
   V_Bulk(<<V_Nil, V_Bulk(<<V_Data(S_data), V_Data(<<7>>)>>)>>),
   V_Bulk(<<V_Data(<<49, 45, 48>>), V_Bulk(<<V_Data(<<119>>), V_Data(<<7>>)>>)>>)}

\* "a", "b"
GroupKeys == {V_Data(<<97>>), V_Data(<<98>>)}

\* pairs of the wrong shape: no list, one element, entries that are no list, a
\* key that is no binary value, a key that is no UTF-8
MalformedPairs ==
  {V_Nil, V_Bulk(<<V_Data(<<97>>)>>), V_Bulk(<<V_Data(<<97>>), V_Nil>>),
   V_Bulk(<<V_Nil, V_Bulk(<<>>)>>), V_Bulk(<<V_Data(<<255>>), V_Bulk(<<>>)>>)}

\* outer replies that are no list
NonListReplies == {V_Nil, V_Okay, V_Int(0), V_Data(<<>>), V_Status(<<79, 75>>)}

\* The reply is assembled pair by pair and entry by entry, up to its first
\* malformed element: the last pair is open while it and its entries so far are
\* well-formed.
LastPair(v) == v.items[Len(v.items)]

LastPairOpen(v) ==
  /\ v.items # <<>>
  /\ LastPair(v).t = "Bulk"
  /\ Len(LastPair(v).items) = 2
  /\ LastPair(v).items[1] \in GroupKeys
  /\ LastPair(v).items[2].t = "Bulk"
  /\ \A i \in 1..Len(LastPair(v).items[2].items) :
       LastPair(v).items[2].items[i] \in GoodEntries

ReplyOpen(v) == v.items = <<>> \/ LastPairOpen(v)

WithEntry(v, e) ==
  V_Bulk([v.items EXCEPT ![Len(v.items)] =
            V_Bulk(<<@.items[1], V_Bulk(Append(@.items[2].items, e))>>)])

InitStream ==
  /\ pc = "start"
  /\ schema = 0
  /\ orig = None
  /\ src = "none"
  /\ arg = None
  /\ out = None

ReadEntry ==
  /\ pc = "start"
  /\ \E v \in EntryValues : arg' = v
  /\ src' = "entry"
  /\ pc' = "ready"
  /\ UNCHANGED <<schema, orig, out>>

ReadStreamId ==
  /\ pc = "start"
  /\ \E sid \in StreamIds : arg' = sid
  /\ src' = "stream_id"
  /\ pc' = "ready"
  /\ UNCHANGED <<schema, orig, out>>

ReadNonList ==
  /\ pc = "start"
  /\ \E v \in NonListReplies : arg' = v
  /\ src' = "grouped"
  /\ pc' = "ready"
  /\ UNCHANGED <<schema, orig, out>>

BeginReply ==
  /\ pc = "start"
  /\ arg' = V_Bulk(<<>>)
  /\ src' = "grouped"
  /\ pc' = "building"
  /\ UNCHANGED <<schema, orig, out>>

AddPair ==
  /\ pc = "building"
  /\ ReplyOpen(arg)
  /\ Len(arg.items) < MaxPairs
  /\ \E k \in GroupKeys : arg' = V_Bulk(Append(arg.items, V_Bulk(<<k, V_Bulk(<<>>)>>)))
  /\ UNCHANGED <<pc, schema, orig, src, out>>

AddMalformedPair ==
  /\ pc = "building"
  /\ ReplyOpen(arg)
  /\ Len(arg.items) < MaxPairs
  /\ \E p \in MalformedPairs : arg' = V_Bulk(Append(arg.items, p))
  /\ UNCHANGED <<pc, schema, orig, src, out>>

AddEntry ==
  /\ pc = "building"
  /\ LastPairOpen(arg)
  /\ Len(LastPair(arg).items[2].items) < MaxEntries
  /\ \E e \in GoodEntries \cup BadEntries : arg' = WithEntry(arg, e)
  /\ UNCHANGED <<pc, schema, orig, src, out>>

EndReply ==
  /\ pc = "building"
  /\ pc' = "ready"
  /\ UNCHANGED <<schema, orig, src, arg, out>>

DecodeEntry ==
  /\ pc = "ready"
  /\ src = "entry"
  /\ out' = StreamMessage_from_redis_value(arg)
  /\ pc' = "done"
  /\ UNCHANGED <<schema, orig, src, arg>>

DecodeStreamId ==
  /\ pc = "ready"
  /\ src = "stream_id"
  /\ out' = StreamMessage_try_from(arg)
  /\ pc' = "done"
  /\ UNCHANGED <<schema, orig, src, arg>>

DecodeGrouped ==
  /\ pc = "ready"
  /\ src = "grouped"
  /\ out' = StreamMessageByStreamKey_from_redis_value(arg)
  /\ pc' = "done"
  /\ UNCHANGED <<schema, orig, src, arg>>

NextStream ==
  \/ ReadEntry \/ ReadStreamId \/ ReadNonList
  \/ BeginReply \/ AddPair \/ AddMalformedPair \/ AddEntry \/ EndReply
  \/ DecodeEntry \/ DecodeStreamId \/ DecodeGrouped

SpecStream == InitStream /\ [][NextStream]_vars

\* the field name of a raw entry of the expected shape [id, [name, value]],
\* when it is a string
HasFieldName(v) ==
  /\ v.t = "Bulk" /\ Len(v.items) = 2
  /\ v.items[2].t = "Bulk" /\ Len(v.items[2].items) = 2
  /\ String_from_redis_value(v.items[2].items[1]).ok

FieldName(v) == String_from_redis_value(v.items[2].items[1]).val

\* a raw entry, or its field list, with a number of elements other than 2
WrongCount(v) ==
  /\ v.t = "Bulk"
  /\ \/ Len(v.items) # 2
     \/ /\ MessageId_from_redis_value(v.items[1]).ok
        /\ v.items[2].t = "Bulk"
        /\ Len(v.items[2].items) # 2

RECURSIVE MessagesOf(_, _, _)
MessagesOf(pairs, key, i) ==
  IF i > Len(pairs) THEN <<>>
  ELSE (IF pairs[i].items[1].b = key
        THEN [j \in 1..Len(pairs[i].items[2].items) |->
                StreamMessage_from_redis_value(pairs[i].items[2].items[j]).val]
        ELSE <<>>) \o MessagesOf(pairs, key, i + 1)

BatchLevelFailure(v) ==
  \/ v.t \notin {"Nil", "Bulk"}
  \/ /\ v.t = "Bulk" /\ v.items # <<>>
     /\ LET p == v.items[Len(v.items)] IN
        \/ p.t # "Bulk"
        \/ Len(p.items) # 2
        \/ ~RedisString_from_redis_value(p.items[1]).ok
        \/ p.items[2].t # "Bulk"

\* The replies that fail inside one entry.
EntryLevelFailure(v) ==
  /\ ~StreamMessageByStreamKey_from_redis_value(v).ok
  /\ ~BatchLevelFailure(v)

(***************************************************************************)
(* C9: no failure inside a single entry produces the same error value as   *)
(* a batch-level failure (a malformed outer reply shape).                  *)
(***************************************************************************)
C9_Distinguishable ==
  (pc = "done" /\ src = "grouped" /\ ~out.ok /\ EntryLevelFailure(arg)) =>
    \A v \in NonListReplies \cup {V_Bulk(<<p>>) : p \in MalformedPairs} :
      BatchLevelFailure(v) => StreamMessageByStreamKey_from_redis_value(v).err # out.err

(***************************************************************************)
(* C10: a nil outer reply decodes to an empty mapping; every other outer   *)
(* value that is not a list is refused.                                    *)
(***************************************************************************)
C10_NilIsEmpty ==
  (pc = "done" /\ src = "grouped") =>
    /\ arg.t = "Nil" => (out.ok /\ DOMAIN out.val = {})
    /\ arg.t \notin {"Nil", "Bulk"} => ~out.ok

\* the nil reply has been decoded
C10_Witness ==
  /\ pc = "done"
  /\ src = "grouped"
  /\ arg = V_Nil
  /\ out.ok

(***************************************************************************)
(* UpdateFlags                                                             *)
(***************************************************************************)
IS_V2_ENCODED == 1

IS_COMPRESSED == 2

\* a & b on unsigned integers
RECURSIVE BitAnd(_, _)
BitAnd(a, b) ==
  IF a = 0 \/ b = 0 THEN 0
  ELSE (a % 2) * (b % 2) + 2 * BitAnd(a \div 2, b \div 2)

is_v2_encoded(flags) == BitAnd(flags, IS_V2_ENCODED) # 0

is_v1_encoded(flags) == ~is_v2_encoded(flags)

is_compressed(flags) == BitAnd(flags, IS_COMPRESSED) # 0

(***************************************************************************)
(* The two external decoders of into_update, as far as the model layer     *)
(* depends on them.                                                        *)
(*                                                                         *)
(* zstd::decode_all reads frames until the input ends.  A frame is         *)
(* abstracted to the zstd magic number, one byte giving the size of the    *)
(* content, and the content; anything else, a truncated frame included,    *)
(* is an error.  No input at all decodes to no bytes.                      *)
(*                                                                         *)
(* The CRDT decoders are opaque: they refuse an empty buffer and otherwise *)
(* return an update that records the format and the bytes it was read from *)
(***************************************************************************)
ZstdMagic == <<40, 181, 47, 253>>

ZstdFrame(content) == ZstdMagic \o <<Len(content)>> \o content

RECURSIVE zstd_decode_all(_)
zstd_decode_all(data) ==
  IF data = <<>> THEN Ok(<<>>)
  ELSE IF ~StartsWith(data, ZstdMagic) THEN Err("Unknown frame descriptor")
  ELSE IF Len(data) < 5 \/ Len(data) < 5 + data[5] THEN Err("incomplete frame")
  ELSE LET rest == zstd_decode_all(Drop(data, 5 + data[5])) IN
       IF ~rest.ok THEN rest
       ELSE Ok(SubSeq(data, 6, 5 + data[5]) \o rest.val)

Update_decode_v1(bytes) ==
  IF bytes = <<>> THEN Err("end of buffer")
  ELSE Ok([encoding |-> "v1", bytes |-> bytes])

Update_decode_v2(bytes) ==
  IF bytes = <<>> THEN Err("end of buffer")
  ELSE Ok([encoding |-> "v2", bytes |-> bytes])

(***************************************************************************)
(* CollabStreamUpdate and AwarenessStreamUpdate                            *)
(***************************************************************************)
\* CollabStreamUpdate::new
CollabStreamUpdate_new(data, sender, flags) ==
  [data |-> data, sender |-> sender, flags |-> flags]

\* the second half of into_update: the CRDT decoder chosen by the flags
decode_by_flags(flags, bytes, calls) ==
  LET update == IF is_v1_encoded(flags) THEN Update_decode_v1(bytes)
                ELSE Update_decode_v2(bytes)
  IN [res |-> IF update.ok THEN update ELSE Err(StreamError("UpdateDecode", update.err)),
      calls |-> Append(calls, IF is_v1_encoded(flags) THEN "decode_v1" ELSE "decode_v2"),
      input |-> bytes]

\* into_update that carries on with no bytes when decompression fails
into_update_swallow(self) ==
  IF is_compressed(self.flags)
  THEN LET bytes == zstd_decode_all(self.data) IN
       decode_by_flags(self.flags, IF bytes.ok THEN bytes.val ELSE <<>>, <<"zstd">>)
  ELSE decode_by_flags(self.flags, self.data, <<>>)

\* CollabStreamUpdate::into_update.  calls records the external decoders
\* that were run, in order, and input the bytes the CRDT decoder was given.
into_update(self) ==
  IF is_compressed(self.flags)
  THEN LET bytes == zstd_decode_all(self.data) IN
       IF ~bytes.ok
       THEN [res |-> Err(StreamError("IO", bytes.err)), calls |-> <<"zstd">>, input |-> <<>>]
       ELSE decode_by_flags(self.flags, bytes.val, <<"zstd">>)
  ELSE decode_by_flags(self.flags, self.data, <<>>)

\* CollabStreamUpdate::into_new_update: the same steps on a copy of the data
into_new_update(self) ==
  LET data == self.data IN
  IF is_compressed(self.flags)
  THEN LET bytes == zstd_decode_all(data) IN
       IF ~bytes.ok
       THEN [res |-> Err(StreamError("IO", bytes.err)), calls |-> <<"zstd">>, input |-> <<>>]
       ELSE decode_by_flags(self.flags, bytes.val, <<"zstd">>)
  ELSE decode_by_flags(self.flags, data, <<>>)

S_sender == <<115, 101, 110, 100, 101, 114>>   \* "sender"

S_flags == <<102, 108, 97, 103, 115>>          \* "flags"

\* the sender of a field mapping
sender_of(fields) ==
  IF S_sender \notin DOMAIN fields THEN Ok(Origin_Empty)
  ELSE LET raw_origin == String_from_redis_value(fields[S_sender]) IN
       IF ~raw_origin.ok THEN Err(StreamError("RedisError", raw_origin.err))
       ELSE LET origin == collab_origin_from_str(raw_origin.val) IN
            IF ~origin.ok THEN Err(StreamError("RedisError", origin.err)) ELSE origin

\* the data of a field mapping
data_of(fields) ==
  IF S_data \notin DOMAIN fields
  THEN Err(StreamError("RedisError", internal("expecting field data", <<>>)))
  ELSE LET data == Vec_u8_from_redis_value(fields[S_data]) IN
       IF ~data.ok THEN Err(StreamError("RedisError", data.err)) ELSE data

\* the flags of a field mapping read as the first byte of a binary value
flags_of_raw_byte(fields) ==
  IF S_flags \notin DOMAIN fields THEN 0
  ELSE IF fields[S_flags].t = "Data" /\ fields[S_flags].b # <<>> THEN fields[S_flags].b[1]
  ELSE 0

\* the flags of a field mapping: u8::from_redis_value(flags).unwrap_or(0)
flags_of(fields) ==
  IF S_flags \notin DOMAIN fields THEN 0
  ELSE LET flags == u8_from_redis_value(fields[S_flags]) IN
       IF ~flags.ok THEN 0 ELSE flags.val

\* TryFrom<HashMap<String, redis::Value>> for CollabStreamUpdate
CollabStreamUpdate_try_from(fields) ==
  LET sender == sender_of(fields)
      flags == flags_of(fields)
      data == data_of(fields)
  IN IF ~sender.ok THEN sender
     ELSE IF ~data.ok THEN data
     ELSE Ok([data |-> data.val, sender |-> sender.val, flags |-> flags])

\* TryFrom<HashMap<String, redis::Value>> for AwarenessStreamUpdate
AwarenessStreamUpdate_try_from(fields) ==
  LET sender == sender_of(fields)
      data == data_of(fields)
  IN IF ~sender.ok THEN sender
     ELSE IF ~data.ok THEN data
     ELSE Ok([data |-> data.val, sender |-> sender.val])

(***************************************************************************)
(* Reading updates: the fields of a stream entry are turned into an        *)
(* update; an update is decoded.                                           *)
(***************************************************************************)
\* "", "server", "uid:7|device_id:x", "device_id:x|uid:7", "x", "uid:x|device_id:x"
SenderTexts ==
  {<<>>, S_server,
   S_uid \o <<55>> \o S_pipe \o S_device_id \o <<120>>,
   S_device_id \o <<120>> \o S_pipe \o S_uid \o <<55>>,
   <<120>>,
   S_uid \o <<120>> \o S_pipe \o S_device_id \o <<120>>}

SenderValues ==
  {V_Data(t) : t \in SenderTexts}
    \cup {V_Status(S_server), V_Data(<<255>>), V_Int(7), V_Nil, V_Okay}

\* integers in and out of the range of a byte; the texts "3", "x", "256", "+1";
\* a lone 0xFF; replies that are no number
FlagValues ==
  {V_Int(n) : n \in {0, 1, 2, 3, 255, 256, 258, -1}}
    \cup {V_Data(<<51>>), V_Data(<<120>>), V_Data(<<50, 53, 54>>), V_Data(<<43, 49>>),
          V_Data(<<255>>), V_Data(<<>>), V_Status(<<50>>), V_Nil, V_Okay, V_Bulk(<<>>)}

DataValues ==
  {V_Data(<<>>), V_Data(<<7, 0>>), V_Data(<<255>>), V_Nil, V_Int(7), V_Okay,
   V_Bulk(<<V_Int(7), V_Int(300)>>), V_Bulk(<<V_Nil>>)}

ValuesOfField(name) ==
  CASE name = S_sender -> SenderValues
    [] name = S_flags -> FlagValues
    [] OTHER -> DataValues

FieldMaps ==
  UNION {{f \in [names -> SenderValues \cup FlagValues \cup DataValues] :
            \A n \in names : f[n] \in ValuesOfField(n)} :
         names \in SUBSET {S_sender, S_flags, S_data}}

\* update data: nothing, plain bytes, frames of one byte, of nothing and of two
\* bytes, two frames, a frame cut short, a frame after plain bytes
UpdateData ==
  {<<>>, <<7>>, <<7, 0>>, ZstdFrame(<<7>>), ZstdFrame(<<>>), ZstdFrame(<<7, 0>>),
   ZstdFrame(<<7>>) \o ZstdFrame(<<0>>), ZstdMagic, ZstdMagic \o <<2, 7>>,
   <<7>> \o ZstdFrame(<<7>>)}

InitUpdate ==
  /\ pc = "start"
  /\ schema = 0
  /\ orig = None
  /\ src = "none"
  /\ arg = None
  /\ out = None

ReadFields ==
  /\ pc = "start"
  /\ \E f \in FieldMaps : arg' = f
  /\ \E kind \in {"collab", "awareness"} : src' = kind
  /\ pc' = "ready"
  /\ UNCHANGED <<schema, orig, out>>

NewUpdate ==
  /\ pc = "start"
  /\ \E data \in UpdateData, flags \in 0..255 :
       /\ arg' = CollabStreamUpdate_new(data, Origin_Server, flags)
       /\ orig' = arg'
  /\ src' = "update"
  /\ pc' = "ready"
  /\ UNCHANGED <<schema, out>>

TryFromCollab ==
  /\ pc = "ready"
  /\ src = "collab"
  /\ out' = CollabStreamUpdate_try_from(arg)
  /\ pc' = "done"
  /\ UNCHANGED <<schema, orig, src, arg>>

TryFromAwareness ==
  /\ pc = "ready"
  /\ src = "awareness"
  /\ out' = AwarenessStreamUpdate_try_from(arg)
  /\ pc' = "done"
  /\ UNCHANGED <<schema, orig, src, arg>>

IntoUpdate ==
  /\ pc = "ready"
  /\ src = "update"
  /\ out' = into_update(arg)
  /\ src' = "into_update"
  /\ pc' = "done"
  /\ UNCHANGED <<schema, orig, arg>>

IntoNewUpdate ==
  /\ pc = "ready"
  /\ src = "update"
  /\ out' = into_new_update(arg)
  /\ src' = "into_new_update"
  /\ pc' = "done"
  /\ UNCHANGED <<schema, orig, arg>>

NextUpdate ==
  \/ ReadFields \/ NewUpdate
  \/ TryFromCollab \/ TryFromAwareness
  \/ IntoUpdate \/ IntoNewUpdate

SpecUpdate == InitUpdate /\ [][NextUpdate]_vars

\* whether the sender field of a mapping, if any, decodes
SenderDecodes(fields) ==
  S_sender \in DOMAIN fields =>
    /\ String_from_redis_value(fields[S_sender]).ok
    /\ collab_origin_from_str(String_from_redis_value(fields[S_sender]).val).ok

(***************************************************************************)
(* C7: building an update from a field mapping.  Without a sender the      *)
(* sender is Empty, otherwise it is the decoded sender string, and a       *)
(* sender that does not decode fails the construction.  Flags that are     *)
(* absent or do not convert to a byte are 0 and never fail it.  Without    *)
(* data the construction fails whatever the other fields are; data that is *)
(* there comes back byte for byte.  An awareness update follows the same   *)
(* rules and has no flags.                                                 *)
(***************************************************************************)
C7_FieldMapping ==
  (pc = "done" /\ src \in {"collab", "awareness"}) =>
    /\ S_data \notin DOMAIN arg => ~out.ok
    /\ ~SenderDecodes(arg) => ~out.ok
    /\ out.ok <=> /\ SenderDecodes(arg)
                  /\ S_data \in DOMAIN arg
                  /\ Vec_u8_from_redis_value(arg[S_data]).ok
    /\ (out.ok /\ S_sender \notin DOMAIN arg) => out.val.sender = Origin_Empty
    /\ (out.ok /\ S_sender \in DOMAIN arg) =>
         out.val.sender = collab_origin_from_str(String_from_redis_value(arg[S_sender]).val).val
    /\ (out.ok /\ arg[S_data].t = "Data") => out.val.data = arg[S_data].b
    /\ (out.ok /\ src = "collab") =>
         out.val.flags = IF S_flags \in DOMAIN arg /\ u8_from_redis_value(arg[S_flags]).ok
                         THEN u8_from_redis_value(arg[S_flags]).val
                         ELSE 0
    /\ src = "awareness" => DOMAIN out.val \subseteq {"data", "sender"}

\* an update has been built from a mapping whose flags do not convert to a byte
C7_Witness ==
  /\ pc = "done"
  /\ src = "collab"
  /\ S_flags \in DOMAIN arg
  /\ ~u8_from_redis_value(arg[S_flags]).ok
  /\ S_sender \notin DOMAIN arg
  /\ out.ok
  /\ out.val.flags = 0
  /\ out.val.data = <<7, 0>>

(***************************************************************************)
(* C8: into_update and into_new_update give the same result, and           *)
(* into_new_update leaves the update as it was.  The data is decompressed  *)
(* with zstd first if and only if bit 1 of the flags is set; the bytes     *)
(* that result go to the v2 decoder if and only if bit 0 is set and to the *)
(* v1 decoder otherwise; no other bit of the flags matters.  When          *)
(* decompression fails the error is returned and no CRDT decoder is run.   *)
(***************************************************************************)
C8_IntoUpdate ==
  (pc = "done" /\ src \in {"into_update", "into_new_update"}) =>
    LET compressed == (arg.flags \div 2) % 2 = 1
        v2 == arg.flags % 2 = 1
        z == zstd_decode_all(arg.data)
        decoder == IF v2 THEN "decode_v2" ELSE "decode_v1"
    IN /\ arg = orig
       /\ out = into_update(CollabStreamUpdate_new(orig.data, orig.sender, orig.flags % 4))
       /\ src = "into_new_update" => out = into_update(orig)
       /\ (compressed /\ ~z.ok) =>
            (~out.res.ok /\ out.calls = <<"zstd">> /\ out.input = <<>>)
       /\ (compressed /\ z.ok) =>
            (out.calls = <<"zstd", decoder>> /\ out.input = z.val)
       /\ ~compressed => (out.calls = <<decoder>> /\ out.input = arg.data)
       /\ out.res.ok => out.res.val = [encoding |-> IF v2 THEN "v2" ELSE "v1",
                                       bytes |-> out.input]

\* a compressed update whose data is no zstd frame has been refused, with
\* reserved flag bits set
C8_Witness ==
  /\ pc = "done"
  /\ src = "into_update"
  /\ arg.flags = 254
  /\ arg.data = <<7>>
  /\ ~out.res.ok
  /\ out.calls = <<"zstd">>

====
